---- MODULE Spec2Model ----
(***************************************************************************)
(* RequestedTaskManager (golem/task/requestedtaskmanager.py): the task and *)
(* subtask rows of the store, the app_id -> RequestorAppClient map, and    *)
(* the coroutines of the async operations, which interleave at every       *)
(* await of an App Client call or of RequestorAppClient.create.            *)
(***************************************************************************)
EXTENDS Integers, FiniteSets, Sequences, Bags, TLC

\* ---- bounds of the model
MaxTasks == 2
NumApps == 1
NumProviders == 2
MaxMaxSubtasks == 2
MaxStore == 4
MaxCoros == 2
MaxShutdowns == 2
MaxTimeout == 1

\* RequestedTaskManager._public_key, as a node id
PublicKey == 0

AppIds == 1..NumApps
TaskIds == 1..MaxTasks
Providers == 1..NumProviders
NodeIds == {PublicKey} \cup Providers
SubtaskIds == 1..(MaxStore - 2)
\* CreateTaskParams.subtask_timeout, in milliseconds
Timeouts == 1..MaxTimeout

VARIABLES
    tasks,        \* RequestedTask rows, task_id = index
    subtasks,     \* RequestedSubtask rows, subtask_id = index
    app_clients,  \* self._app_clients: app_id -> NoClient or the instance
    coros,        \* bag of suspended coroutines
    ret,          \* what the step just taken returned or raised
    quit_called,  \* quit() was called
    quit_pending, \* apps whose shutdown(), started by quit(), has not returned
    timers        \* subtask ids with a ProviderComputeTimers timer running

vars == <<tasks, subtasks, app_clients, coros, ret, quit_called, quit_pending,
          timers>>

\* ---- status predicates
\* TaskStatus.is_active(), as the list duplicated in _shutdown_app_client
TaskActiveStatuses == {"sending", "waiting", "starting", "computing"}

\* a test that takes a task in creating for active, to compare against
ActiveOrCreating(st) ==
    st \in {"creating", "sending", "waiting", "starting", "computing"}

TaskIsActive(st) == st \in TaskActiveStatuses

\* a wider test than is_preparing, to compare against
NotYetComputing(st) == st \in {"creating", "starting", "waiting"}

\* TaskStatus.is_preparing()
TaskIsPreparing(st) == st \in {"creating", "starting"}

\* TaskStatus.is_completed()
TaskCompletedStatuses == {"finished", "aborted", "timeout", "failed"}

\* a narrower list than the one of abort_task, to compare against
StartingAlone == {"starting"}

\* SubtaskStatus.is_active(), as the list duplicated in abort_task
SubtaskActiveStatuses == {"starting", "downloading", "verifying"}

\* RequestedTask.get(RequestedTask.task_id == task_id) finds a row
TaskExists(t) == t \in 1..Len(tasks)

\* RequestedSubtask.get(RequestedSubtask.subtask_id == subtask_id) finds a row
SubtaskExists(s) == s \in 1..Len(subtasks)

\* ---- queries
\* a query that leaves the where clause out, to compare against
AnyTaskExists(t) == \E i \in 1..Len(tasks) : TRUE

\* task_exists: select(task_id).where(task_id == task_id).exists()
task_exists(t) == \E i \in 1..Len(tasks) : i = t

\* a count of the provider's rows in starting alone, to compare against
CountStartingSubtasks(rows, t, n) ==
    Cardinality({s \in 1..Len(rows) :
        /\ rows[s].computing_node = n
        /\ rows[s].task = t
        /\ rows[s].status = "starting"})

\* _get_unfinished_subtasks: rows of (task, node) whose status != finished
GetUnfinishedSubtasks(rows, t, n) ==
    Cardinality({s \in 1..Len(rows) :
        /\ rows[s].computing_node = n
        /\ rows[s].task = t
        /\ rows[s].status # "finished"})

\* the count the query of verify selects: finished rows of the task
FinishedSubtasks(rows, t) ==
    Cardinality({s \in 1..Len(rows) :
        rows[s].task = t /\ rows[s].status = "finished"})

\* verify's `if finished_subtasks >= task.max_subtasks`: finished_subtasks is
\* the Select query itself (it is never run with .scalar(), as the query of
\* _get_unfinished_subtasks is), so >= builds a peewee Expression object and
\* the test is on the truth value of that object, which is true whatever
\* the count: the branch is taken after every successful verification.
TaskCompletedCheck(rows, trows, t) == TRUE

\* _shutdown_app_client's count of the active tasks of the app
UnfinishedTasks(trows, app) ==
    Cardinality({t \in 1..Len(trows) :
        trows[t].app_id = app /\ trows[t].status \in TaskActiveStatuses})

\* ---- RequestorAppClient objects
\* RTM reaches an instance through its map entry only (every call is made on
\* self._app_clients[app_id] or on a value of the map), so an instance is
\* the value of its entry: the shutdown() calls made on it so far.
NoClient == [present |-> FALSE, shutdowns |-> 0, quit |-> FALSE]

NewClient == [present |-> TRUE, shutdowns |-> 0, quit |-> FALSE]

\* a shutdown() that is not invoked, to compare against
NotShutDown(client) == client

\* shutdown() is called on the instance; calls beyond MaxShutdowns are not
\* counted
Shutdown(client) ==
    [client EXCEPT !.shutdowns = IF @ < MaxShutdowns THEN @ + 1 ELSE @]

\* ---- coroutines
Coro(op, t, n, s, pc) ==
    [op |-> op, task |-> t, node |-> n, sub |-> s, pc |-> pc]

One(c) == SetToBag({c})

InFlight == BagToSet(coros)

Without(c) == coros (-) One(c)

\* the outcome of the step just taken: what an operation returned or raised,
\* and where; NoRet when the step only suspended or resumed a coroutine
RetVal(op, res, v) == [op |-> op, res |-> res, val |-> v]
Ret(op, res) == RetVal(op, res, 0)

NoRet == Ret("none", "none")

CanSpawn(base) == BagCardinality(base) < MaxCoros

\* an operation raises or returns at once: only the outcome is new
Returns(op, res) ==
    /\ ret' = Ret(op, res)
    /\ UNCHANGED <<tasks, subtasks, app_clients, coros, quit_called, quit_pending, timers>>

Init ==
    /\ tasks = <<>>
    /\ subtasks = <<>>
    /\ app_clients = [a \in AppIds |-> NoClient]
    /\ coros = EmptyBag
    /\ ret = NoRet
    /\ quit_called = FALSE
    /\ quit_pending = {}
    /\ timers = {}

\* the size of the store: a task row weighs as two subtask rows, and the
\* rows that the get_next_subtask calls in flight insert are counted
GnsInFlight ==
    LET G == {c \in InFlight : c.op = "get_next_subtask"} IN
    BagCardinality([c \in G |-> coros[c]])

StoreSize == 2 * Len(tasks) + Len(subtasks) + GnsInFlight

\* ---- ProviderComputeTimers, a sink of start and finish events
TimerStart(T, s) == T \cup {s}
TimerFinish(T, s) == T \ {s}

\* ---- create_task
\* the row is inserted under a new id, which is returned
CreateTask(app, max, timeout) ==
    /\ Len(tasks) < MaxTasks
    /\ StoreSize + 2 <= MaxStore
    /\ tasks' = Append(tasks,
           [status |-> "creating", app_id |-> app, max_subtasks |-> max,
            subtask_timeout |-> timeout])
    /\ ret' = RetVal("create_task", "ok", Len(tasks) + 1)
    /\ UNCHANGED <<subtasks, app_clients, coros, quit_called, quit_pending, timers>>

\* ---- start_task
StartTask(t) ==
    \/ /\ ~TaskExists(t)
       /\ Returns("get", "DoesNotExist")
    \/ /\ TaskExists(t)
       /\ ~TaskIsPreparing(tasks[t].status)
       /\ Returns("start_task", "AlreadyStarted")
    \/ /\ TaskExists(t)
       /\ TaskIsPreparing(tasks[t].status)
       /\ tasks' = [tasks EXCEPT ![t].status = "waiting"]
       /\ ret' = Ret("start_task", "ok")
       /\ UNCHANGED <<subtasks, app_clients, coros, quit_called, quit_pending, timers>>

\* ---- _get_app_client
\* The entry is read and, when there is one, returned without suspending: the
\* caller goes on to its App Client call and suspends there (callPc). Without
\* an entry _get_task_api_service raises when the environment is not enabled
\* (the answer of the Environment Manager is an input), and otherwise
\* RequestorAppClient.create is invoked and awaited (createPc); the new
\* instance is stored in the map on resume.
GetAppClient(base, c, createPc, callPc) ==
    LET app == tasks[c.task].app_id IN
    \/ /\ app_clients[app].present
       /\ CanSpawn(base)
       /\ coros' = base (+) One([c EXCEPT !.pc = callPc])
       /\ ret' = NoRet
    \/ /\ ~app_clients[app].present
       /\ coros' = base
       /\ ret' = Ret(c.op, "EnvironmentDisabled")
    \/ /\ ~app_clients[app].present
       /\ CanSpawn(base)
       /\ coros' = base (+) One([c EXCEPT !.pc = createPc])
       /\ ret' = NoRet

CreatePcs == {"init_create", "hps_create", "next_create", "verify_create"}

CallAfterCreate(pc) ==
    CASE pc = "init_create" -> "init_call"
      [] pc = "hps_create" -> "hps_call"
      [] pc = "next_create" -> "next_call"
      [] pc = "verify_create" -> "verify_call"

\* RequestorAppClient.create returns: the new instance is stored in the map
\* (over whatever entry is there by now) and the caller goes on to its App
\* Client call; verify saves the subtask as verifying before that call.
CreateDone(c) ==
    /\ c \in InFlight
    /\ c.pc \in CreatePcs
    /\ app_clients' = [app_clients EXCEPT ![tasks[c.task].app_id] = NewClient]
    /\ coros' = Without(c) (+) One([c EXCEPT !.pc = CallAfterCreate(c.pc)])
    /\ subtasks' = IF c.pc = "verify_create"
                   THEN [subtasks EXCEPT ![c.sub].status = "verifying"]
                   ELSE subtasks
    /\ ret' = NoRet
    /\ UNCHANGED <<tasks, quit_called, quit_pending, timers>>

\* ---- init_task
\* a laxer guard than the one of init_task, to compare against
CreatingOrWaiting(st) == st \in {"creating", "waiting"}

\* the status test of init_task
InitAllowed(st) == st = "creating"

InitTask(t) ==
    \/ /\ ~TaskExists(t)
       /\ Returns("get", "DoesNotExist")
    \/ /\ TaskExists(t)
       /\ ~InitAllowed(tasks[t].status)
       /\ Returns("init_task", "AlreadyInitialized")
    \/ /\ TaskExists(t)
       /\ InitAllowed(tasks[t].status)
       /\ GetAppClient(coros, Coro("init_task", t, 0, 0, "start"),
                       "init_create", "init_call")
       /\ UNCHANGED <<tasks, subtasks, app_clients, quit_called, quit_pending, timers>>

\* an init_task that marks the task as started on success, to compare against
InitCallDoneStarting(c) ==
    /\ c \in InFlight
    /\ c.pc = "init_call"
    /\ coros' = Without(c)
    /\ tasks' = [tasks EXCEPT ![c.task].status = "waiting"]
    /\ ret' = Ret("init_task", "ok")
    /\ UNCHANGED <<subtasks, app_clients, quit_called, quit_pending, timers>>

\* app_client.create_task returns
InitCallDone(c) ==
    /\ c \in InFlight
    /\ c.pc = "init_call"
    /\ coros' = Without(c)
    /\ ret' = Ret("init_task", "ok")
    /\ UNCHANGED <<tasks, subtasks, app_clients,
                   quit_called, quit_pending, timers>>

\* ---- has_pending_subtasks
HasPendingSubtasks(t) ==
    \/ /\ ~TaskExists(t)
       /\ Returns("get", "DoesNotExist")
    \/ /\ TaskExists(t)
       /\ GetAppClient(coros,
                       Coro("has_pending_subtasks", t, 0, 0, "start"),
                       "hps_create", "hps_call")
       /\ UNCHANGED <<tasks, subtasks, app_clients, quit_called, quit_pending, timers>>

\* ---- get_next_subtask
\* Providers are interchangeable: one that has no row and no call in flight
\* is named by the least id not in use.
KnownProviders ==
    {subtasks[s].computing_node : s \in 1..Len(subtasks)}
        \cup {c.node : c \in {x \in InFlight : x.op = "get_next_subtask"}}

NextProvider(n) ==
    \/ n \in KnownProviders
    \/ \A m \in Providers \ KnownProviders : n <= m

\* a check for self that never answers yes, to compare against
NobodyIsSelf(n) == FALSE

\* "Check not providing for own task"
IsSelf(n) == n = PublicKey

AssignmentRefused ==
    {"DoesNotExist", "NoSubtasksForSelf", "TaskNotActive",
     "UnfinishedSubtasks", "NotPending"}

GetNextSubtask(t, n) ==
    \/ /\ ~TaskExists(t)
       /\ Returns("get", "DoesNotExist")
    \/ /\ TaskExists(t)
       /\ IsSelf(n)
       /\ Returns("get_next_subtask", "NoSubtasksForSelf")
    \/ /\ TaskExists(t)
       /\ ~IsSelf(n)
       /\ ~TaskIsActive(tasks[t].status)
       /\ Returns("get_next_subtask", "TaskNotActive")
    \/ /\ TaskExists(t)
       /\ ~IsSelf(n)
       /\ TaskIsActive(tasks[t].status)
       /\ GetUnfinishedSubtasks(subtasks, t, n) > 0
       /\ Returns("get_next_subtask", "UnfinishedSubtasks")
    \/ /\ TaskExists(t)
       /\ ~IsSelf(n)
       /\ TaskIsActive(tasks[t].status)
       /\ ~(GetUnfinishedSubtasks(subtasks, t, n) > 0)
       /\ StoreSize < MaxStore
       /\ NextProvider(n)
       /\ GetAppClient(coros, Coro("get_next_subtask", t, n, 0, "start"),
                       "hps_create", "hps_call")
       /\ UNCHANGED <<tasks, subtasks, app_clients, quit_called, quit_pending, timers>>

\* a get_next_subtask that goes on whatever has_pending_subtasks answers, to
\* compare against
HpsCallDoneAnyAnswer(c, r) ==
    /\ c \in InFlight
    /\ c.pc = "hps_call"
    /\ \/ /\ c.op = "has_pending_subtasks"
          /\ coros' = Without(c)
          /\ ret' = Ret(c.op, IF r THEN "true" ELSE "false")
       \/ /\ c.op = "get_next_subtask"
          /\ GetAppClient(Without(c), c, "next_create", "next_call")
    /\ UNCHANGED <<tasks, subtasks, app_clients, quit_called, quit_pending,
                   timers>>

\* app_client.has_pending_subtasks returns r, to has_pending_subtasks itself
\* or to the get_next_subtask that awaits it and then acquires the client
\* again for next_subtask
HpsCallDone(c, r) ==
    /\ c \in InFlight
    /\ c.pc = "hps_call"
    /\ \/ /\ c.op = "has_pending_subtasks"
          /\ coros' = Without(c)
          /\ ret' = Ret(c.op, IF r THEN "true" ELSE "false")
       \/ /\ c.op = "get_next_subtask"
          /\ ~r
          /\ coros' = Without(c)
          /\ ret' = Ret(c.op, "NotPending")
       \/ /\ c.op = "get_next_subtask"
          /\ r
          /\ GetAppClient(Without(c), c, "next_create", "next_call")
    /\ UNCHANGED <<tasks, subtasks, app_clients, quit_called, quit_pending, timers>>

\* default_now(), in milliseconds: the clock of the model ticks with every
\* subtask row inserted
Now == Len(subtasks)

\* a deadline that leaves the start time out, to compare against
TimeoutAlone(start_time, subtask_timeout) == subtask_timeout

\* deadline = subtask.start_time + timedelta(milliseconds=task.subtask_timeout)
Deadline(start_time, subtask_timeout) == start_time + subtask_timeout

\* app_client.next_subtask returns: the row is created in status starting with
\* start_time = default_now(), its timer is started and the definition is
\* returned with the deadline (subtask_timeout does not change after
\* create_task, so the task object the coroutine holds has the row's value)
NextCallDone(c) ==
    /\ c \in InFlight
    /\ c.pc = "next_call"
    /\ subtasks' = Append(subtasks,
           [task |-> c.task, computing_node |-> c.node, status |-> "starting",
            start_time |-> Now])
    /\ timers' = TimerStart(timers, Len(subtasks) + 1)
    /\ coros' = Without(c)
    /\ ret' = RetVal("get_next_subtask", "ok",
                     Deadline(Now, tasks[c.task].subtask_timeout))
    /\ UNCHANGED <<tasks, app_clients, quit_called, quit_pending>>

\* ---- _shutdown_app_client
\* With an active task of the app left the sweep does nothing. With none it
\* looks the entry up (KeyError without one), invokes shutdown() on it and
\* suspends; the entry is deleted on resume. trows are the task rows as the
\* caller has just saved them, okRes what the caller returns afterwards.
ShutdownAppClient(base, c, trows, okRes) ==
    LET app == trows[c.task].app_id IN
    \/ /\ UnfinishedTasks(trows, app) # 0
       /\ coros' = base
       /\ ret' = Ret(c.op, okRes)
       /\ UNCHANGED app_clients
    \/ /\ UnfinishedTasks(trows, app) = 0
       /\ ~app_clients[app].present
       /\ coros' = base
       /\ ret' = Ret("_shutdown_app_client", "KeyError")
       /\ UNCHANGED app_clients
    \/ /\ UnfinishedTasks(trows, app) = 0
       /\ app_clients[app].present
       /\ CanSpawn(base)
       /\ app_clients' = [app_clients EXCEPT ![app] = Shutdown(@)]
       /\ coros' = base (+) One([c EXCEPT !.pc = "shutdown"])
       /\ ret' = NoRet

\* shutdown() returns to the sweep: del self._app_clients[app_id]
ShutdownDone(c) ==
    LET app == tasks[c.task].app_id IN
    /\ c \in InFlight
    /\ c.pc = "shutdown"
    /\ coros' = Without(c)
    /\ \/ /\ ~app_clients[app].present
          /\ ret' = Ret("_shutdown_app_client", "KeyError")
          /\ UNCHANGED app_clients
       \/ /\ app_clients[app].present
          /\ app_clients' = [app_clients EXCEPT ![app] = NoClient]
          /\ ret' = Ret(c.op, IF c.op = "verify" THEN "true" ELSE "ok")
    /\ UNCHANGED <<tasks, subtasks, quit_called, quit_pending, timers>>

\* ---- verify
\* a verify that saves the subtask as verifying before it acquires the App
\* Client, to compare against
VerifySavesFirst(t, s) ==
    \/ /\ ~TaskExists(t)
       /\ Returns("get", "DoesNotExist")
    \/ /\ TaskExists(t)
       /\ ~TaskIsActive(tasks[t].status)
       /\ Returns("verify", "TaskNotActive")
    \/ /\ TaskExists(t)
       /\ TaskIsActive(tasks[t].status)
       /\ ~(SubtaskExists(s) /\ subtasks[s].task = t)
       /\ IF SubtaskExists(s)
          THEN Returns("verify", "AssertionError")
          ELSE Returns("get", "DoesNotExist")
    \/ /\ TaskExists(t)
       /\ TaskIsActive(tasks[t].status)
       /\ SubtaskExists(s)
       /\ subtasks[s].task = t
       /\ GetAppClient(coros, Coro("verify", t, 0, s, "start"),
                       "verify_create", "verify_call")
       /\ subtasks' = [subtasks EXCEPT ![s].status = "verifying"]
       /\ UNCHANGED <<tasks, app_clients, quit_called, quit_pending, timers>>

Verify(t, s) ==
    \/ /\ ~TaskExists(t)
       /\ Returns("get", "DoesNotExist")
    \/ /\ TaskExists(t)
       /\ ~TaskIsActive(tasks[t].status)
       /\ Returns("verify", "TaskNotActive")
    \/ /\ TaskExists(t)
       /\ TaskIsActive(tasks[t].status)
       /\ ~(SubtaskExists(s) /\ subtasks[s].task = t)
       /\ IF SubtaskExists(s)
          THEN Returns("verify", "AssertionError")
          ELSE Returns("get", "DoesNotExist")
    \/ /\ TaskExists(t)
       /\ TaskIsActive(tasks[t].status)
       /\ SubtaskExists(s)
       /\ subtasks[s].task = t
       /\ GetAppClient(coros, Coro("verify", t, 0, s, "start"),
                       "verify_create", "verify_call")
       /\ subtasks' = IF app_clients[tasks[t].app_id].present
                      THEN [subtasks EXCEPT ![s].status = "verifying"]
                      ELSE subtasks
       /\ UNCHANGED <<tasks, app_clients, quit_called, quit_pending, timers>>

\* a failed verification that puts the subtask back to starting, to compare
\* against
RetryOnFailure(r) == IF r THEN "finished" ELSE "starting"

\* the status saved for the result of app_client.verify
VerifiedStatus(r) == IF r THEN "finished" ELSE "failure"

\* app_client.verify returns r: the subtask object the coroutine holds is
\* saved as finished or failure; after a true result the task object it holds
\* is saved as finished when the completion test passes, and the sweep runs.
VerifyCallDone(c, r) ==
    LET rows == [subtasks EXCEPT ![c.sub].status = VerifiedStatus(r)]
        trows == [tasks EXCEPT ![c.task].status = "finished"]
    IN
    /\ c \in InFlight
    /\ c.pc = "verify_call"
    /\ timers' = TimerFinish(timers, c.sub)
    /\ subtasks' = rows
    /\ \/ /\ ~r
          /\ coros' = Without(c)
          /\ ret' = Ret("verify", "false")
          /\ UNCHANGED <<tasks, app_clients>>
       \/ /\ r
          /\ ~TaskCompletedCheck(rows, tasks, c.task)
          /\ coros' = Without(c)
          /\ ret' = Ret("verify", "true")
          /\ UNCHANGED <<tasks, app_clients>>
       \/ /\ r
          /\ TaskCompletedCheck(rows, tasks, c.task)
          /\ tasks' = trows
          /\ ShutdownAppClient(Without(c), c, trows, "true")
    /\ UNCHANGED <<quit_called, quit_pending>>

\* ---- abort_task
AbortTask(t) ==
    \/ /\ ~TaskExists(t)
       /\ Returns("get", "DoesNotExist")
    \/ /\ TaskExists(t)
       /\ ~TaskIsActive(tasks[t].status)
       /\ Returns("abort_task", "TaskNotActive")
    \/ /\ TaskExists(t)
       /\ TaskIsActive(tasks[t].status)
       /\ LET trows == [tasks EXCEPT ![t].status = "aborted"]
              active == {s \in 1..Len(subtasks) :
                            /\ subtasks[s].task = t
                            /\ subtasks[s].status \in SubtaskActiveStatuses}
          IN
          /\ tasks' = trows
          /\ subtasks' = [s \in 1..Len(subtasks) |->
                 IF s \in active
                 THEN [subtasks[s] EXCEPT !.status = "cancelled"]
                 ELSE subtasks[s]]
          /\ timers' = timers \ active
          /\ ShutdownAppClient(coros, Coro("abort_task", t, 0, 0, "start"),
                               trows, "ok")
       /\ UNCHANGED <<quit_called, quit_pending>>

\* ---- quit
\* With an empty map quit returns a completed handle. Otherwise shutdown() is
\* invoked on every instance in the map, the map is left as is, and the
\* handle returned completes when all of these shutdowns have returned.
Quit ==
    LET present == {a \in AppIds : app_clients[a].present} IN
    /\ ~quit_called
    /\ quit_called' = TRUE
    /\ quit_pending' = present
    /\ app_clients' = [a \in AppIds |->
           IF a \in present
           THEN [Shutdown(app_clients[a]) EXCEPT !.quit = TRUE]
           ELSE app_clients[a]]
    /\ ret' = IF present = {} THEN Ret("quit", "ok") ELSE NoRet
    /\ UNCHANGED <<tasks, subtasks, coros, timers>>

\* a shutdown() started by quit returns; the handle of quit completes with
\* the last of them
QuitShutdownDone(a) ==
    /\ a \in quit_pending
    /\ quit_pending' = quit_pending \ {a}
    /\ ret' = IF quit_pending' = {} THEN Ret("quit", "ok") ELSE NoRet
    /\ UNCHANGED <<tasks, subtasks, app_clients, coros, quit_called, timers>>

\* an init_task that marks the task as failed when create_task raises, to
\* compare against
AppClientErrorMarksFailed(c) ==
    /\ c \in InFlight
    /\ coros' = Without(c)
    /\ ret' = Ret(c.op, "AppClientError")
    /\ tasks' = IF c.pc = "init_call"
                THEN [tasks EXCEPT ![c.task].status = "failed"]
                ELSE tasks
    /\ UNCHANGED <<subtasks, app_clients, quit_called, quit_pending, timers>>

\* a verify that finishes the timer of the subtask also when app_client.verify
\* raises, to compare against
AppClientErrorFinishesTimer(c) ==
    /\ c \in InFlight
    /\ coros' = Without(c)
    /\ ret' = Ret(c.op, "AppClientError")
    /\ timers' = IF c.pc = "verify_call"
                 THEN TimerFinish(timers, c.sub)
                 ELSE timers
    /\ UNCHANGED <<tasks, subtasks, app_clients, quit_called, quit_pending>>

\* ---- an awaited App Client call (or RequestorAppClient.create) raises:
\* the error propagates out of the operation that awaits it, nothing is saved
AppClientError(c) ==
    /\ c \in InFlight
    /\ coros' = Without(c)
    /\ ret' = Ret(c.op, "AppClientError")
    /\ UNCHANGED <<tasks, subtasks, app_clients, quit_called, quit_pending, timers>>

Next ==
    \/ \E a \in AppIds, m \in 1..MaxMaxSubtasks, d \in Timeouts :
          CreateTask(a, m, d)
    \/ \E t \in TaskIds : InitTask(t)
    \/ \E t \in TaskIds : StartTask(t)
    \/ \E t \in TaskIds : HasPendingSubtasks(t)
    \/ \E t \in TaskIds, n \in NodeIds : GetNextSubtask(t, n)
    \/ \E t \in TaskIds, s \in SubtaskIds : Verify(t, s)
    \/ \E t \in TaskIds : AbortTask(t)
    \/ Quit
    \/ \E a \in AppIds : QuitShutdownDone(a)
    \/ \E c \in InFlight : CreateDone(c)
    \/ \E c \in InFlight : InitCallDone(c)
    \/ \E c \in InFlight, r \in BOOLEAN : HpsCallDone(c, r)
    \/ \E c \in InFlight : NextCallDone(c)
    \/ \E c \in InFlight, r \in BOOLEAN : VerifyCallDone(c, r)
    \/ \E c \in InFlight : ShutdownDone(c)
    \/ \E c \in InFlight : AppClientError(c)

Spec == Init /\ [][Next]_vars

\* The state after construction over a store that holds the rows of an
\* earlier run of the node: task and subtask rows are persistent, the map of
\* App Clients (empty in __init__) and the timers are not. The store holds a
\* started task, with or without a subtask handed out to a provider.
InitRestart ==
    /\ tasks = <<[status |-> "waiting", app_id |-> 1,
                  max_subtasks |-> MaxMaxSubtasks,
                  subtask_timeout |-> MaxTimeout]>>
    /\ subtasks \in {<<>>,
                      <<[task |-> 1, computing_node |-> 1,
                         status |-> "starting", start_time |-> 0]>>}
    /\ app_clients = [a \in AppIds |-> NoClient]
    /\ coros = EmptyBag
    /\ ret = NoRet
    /\ quit_called = FALSE
    /\ quit_pending = {}
    /\ timers = {}

SpecRestart == InitRestart /\ [][Next]_vars

\* ---------------------------------------------------------------------------
\* Properties
\* ---------------------------------------------------------------------------

Rows == 1..Len(subtasks)
RowsOf(t) == {s \in Rows : subtasks[s].task = t}
Refused(r) == r.res \in AssignmentRefused

\* C1: once the status of a task is finished, aborted, timeout or failed, no
\* step of any operation changes it again.
C1_TerminalStatusAbsorbs ==
    [][\A t \in 1..Len(tasks) :
          tasks[t].status \in TaskCompletedStatuses
              => tasks'[t].status = tasks[t].status]_vars

\* C2: in every reachable state a task has at most max_subtasks subtasks in
\* status finished.
C2_FinishedAtMostMax ==
    \A t \in 1..Len(tasks) :
        FinishedSubtasks(subtasks, t) <= tasks[t].max_subtasks

\* C3: in every reachable state a task in status finished has at least
\* max_subtasks subtasks in status finished.
C3_FinishedTaskHasAllSubtasks ==
    \A t \in 1..Len(tasks) :
        tasks[t].status = "finished"
            => FinishedSubtasks(subtasks, t) >= tasks[t].max_subtasks

\* C4: in every reachable state a task in status aborted has no subtask in
\* an active status (starting, downloading, verifying).
C4_AbortedTaskHasNoActiveSubtask ==
    \A t \in 1..Len(tasks) :
        tasks[t].status = "aborted"
            => \A s \in RowsOf(t) : subtasks[s].status \notin SubtaskActiveStatuses

\* C5: a provider never holds two subtasks of one task in status starting,
\* whatever the overlap of get_next_subtask calls for the pair.
C5_OneStartingPerPair ==
    \A s1, s2 \in Rows :
        /\ subtasks[s1].task = subtasks[s2].task
        /\ subtasks[s1].computing_node = subtasks[s2].computing_node
        /\ subtasks[s1].status = "starting"
        /\ subtasks[s2].status = "starting"
        => s1 = s2

\* the provider has a row for the task that has not reached finished or
\* cancelled
HasOpenSubtask(t, n) ==
    \E s \in RowsOf(t) :
        /\ subtasks[s].computing_node = n
        /\ subtasks[s].status \notin {"finished", "cancelled"}

\* C6: a get_next_subtask call for a (task, provider) pair that starts while
\* a subtask of the pair has not reached finished or cancelled is refused:
\* it raises at its admission rules, inserts no row and contacts no App Client.
C6_SecondAssignmentRefused ==
    [][\A t \in TaskIds, n \in NodeIds :
          HasOpenSubtask(t, n) /\ GetNextSubtask(t, n)
              => /\ Refused(ret')
                 /\ ret'.op = "get_next_subtask"
                 /\ UNCHANGED <<tasks, subtasks, app_clients, coros>>]_vars

C6_Witness ==
    /\ ret = Ret("get_next_subtask", "UnfinishedSubtasks")
    /\ \E t \in 1..Len(tasks), n \in Providers :
          /\ TaskIsActive(tasks[t].status)
          /\ HasOpenSubtask(t, n)
          /\ \E s \in RowsOf(t) : subtasks[s].status \in {"verifying", "failure"}

\* the coroutines suspended in RequestorAppClient.create for the app
Creating(a) ==
    LET C == {c \in InFlight : c.pc \in CreatePcs /\ tasks[c.task].app_id = a}
    IN BagCardinality([c \in C |-> coros[c]])

\* C7: RequestorAppClient.create is in progress at most once per app at any
\* time (creation is single-flight).
C7_CreationSingleFlight ==
    \A a \in AppIds : Creating(a) <= 1

\* C8: shutdown() is invoked at most once on an App Client instance.
C8_ShutdownAtMostOnce ==
    \A a \in AppIds : app_clients[a].shutdowns <= 1

\* C9: no subtask row has the manager's own public key as its computing
\* node, and a get_next_subtask call with that node is refused without a
\* row, an App Client call or an App Client creation.
C9_NoSubtasksForSelf ==
    /\ [](\A s \in Rows : subtasks[s].computing_node # PublicKey)
    /\ [][\A t \in TaskIds :
             GetNextSubtask(t, PublicKey)
                 => /\ Refused(ret')
                    /\ UNCHANGED <<tasks, subtasks, app_clients, coros>>]_vars

C9_Witness ==
    /\ ret = Ret("get_next_subtask", "NoSubtasksForSelf")
    /\ \E t \in 1..Len(tasks) : TaskIsActive(tasks[t].status)
    /\ app_clients[1].present

\* C10: an init_task call that follows a successful init_task of the same
\* task, with no start_task in between, raises "already initialized".
\* (Stated for a store with one task, where the init_task that has just
\* returned is the one of that task.)
C10_SecondInitRefused ==
    [][(/\ Len(tasks) = 1
        /\ ret = Ret("init_task", "ok")
        /\ tasks[1].status = "creating"
        /\ InitTask(1))
           => ret' = Ret("init_task", "AlreadyInitialized")]_vars

\* C10, as the code has it: init_task leaves the status at creating; a call
\* is refused with "already initialized" exactly when the status is not
\* creating (so after start_task), and then no App Client is acquired or
\* called; a call on a task still in creating is accepted again.
C10_InitRefusedIffNotCreating ==
    [][/\ \A c \in InFlight : InitCallDone(c) => tasks' = tasks
       /\ \A t \in 1..Len(tasks) :
             InitTask(t) =>
                IF tasks[t].status = "creating"
                THEN ret' # Ret("init_task", "AlreadyInitialized")
                ELSE /\ ret' = Ret("init_task", "AlreadyInitialized")
                     /\ UNCHANGED <<tasks, subtasks, app_clients, coros>>]_vars

C10_Witness ==
    /\ ret = Ret("init_task", "AlreadyInitialized")
    /\ \E t \in 1..Len(tasks) : tasks[t].status = "waiting"

\* C11: init_task on a task whose status is not creating raises "already
\* initialized" with no App Client acquired or called; init_task returns
\* successfully only from its create_task call for the task, and that return
\* changes no task row, so the status is left at creating.
C11_InitTask ==
    [][/\ \A t \in 1..Len(tasks) :
             tasks[t].status # "creating" /\ InitTask(t)
                 => /\ ret' = Ret("init_task", "AlreadyInitialized")
                    /\ UNCHANGED <<tasks, subtasks, app_clients, coros>>
       /\ ret' = Ret("init_task", "ok")
             => \E c \in InFlight :
                   /\ c.op = "init_task"
                   /\ c.pc = "init_call"
                   /\ TaskExists(c.task)
                   /\ coros' = Without(c)
                   /\ tasks' = tasks
                   /\ subtasks' = subtasks]_vars

C11_Witness ==
    /\ ret = Ret("init_task", "ok")
    /\ Len(tasks) = 1
    /\ tasks[1].status = "creating"
    /\ app_clients[tasks[1].app_id].present

\* C12: start_task moves a task in creating or starting to waiting and
\* raises "already started", changing nothing, for every other status: a
\* second start_task fails, and a completed task is never made active again.
C12_StartTask ==
    [][\A t \in 1..Len(tasks) :
          StartTask(t) =>
             IF tasks[t].status \in {"creating", "starting"}
             THEN /\ tasks' = [tasks EXCEPT ![t].status = "waiting"]
                  /\ ret' = Ret("start_task", "ok")
                  /\ UNCHANGED <<subtasks, app_clients, coros>>
             ELSE /\ ret' = Ret("start_task", "AlreadyStarted")
                  /\ UNCHANGED <<tasks, subtasks, app_clients, coros>>]_vars

C12_Witness ==
    /\ ret = Ret("start_task", "AlreadyStarted")
    /\ Len(tasks) = 1
    /\ tasks[1].status \in TaskCompletedStatuses

\* C13: get_next_subtask succeeds only by its next_subtask call for the task
\* returning, and that step appends exactly one row with the task and node
\* of the call in status starting, starts the timer of the new subtask,
\* returns a deadline equal to the row's start_time plus the task's
\* subtask_timeout, and changes no other row of either table.
C13_GetNextSubtaskSuccess ==
    [][(ret'.op = "get_next_subtask" /\ ret'.res = "ok")
          => \E c \in InFlight :
                LET new == Len(subtasks) + 1 IN
                /\ c.op = "get_next_subtask"
                /\ c.pc = "next_call"
                /\ TaskExists(c.task)
                /\ coros' = Without(c)
                /\ Len(subtasks') = new
                /\ \A s \in 1..Len(subtasks) : subtasks'[s] = subtasks[s]
                /\ subtasks'[new].task = c.task
                /\ subtasks'[new].computing_node = c.node
                /\ subtasks'[new].status = "starting"
                /\ timers' = timers \cup {new}
                /\ ret'.val = subtasks'[new].start_time
                                  + tasks[c.task].subtask_timeout
                /\ tasks' = tasks
                /\ app_clients' = app_clients]_vars

C13_Witness ==
    /\ ret.op = "get_next_subtask"
    /\ ret.res = "ok"
    /\ Len(subtasks) = 2
    /\ subtasks[2].start_time > 0
    /\ 2 \in timers
    /\ TaskIsActive(tasks[subtasks[2].task].status)

\* C14: when app_client.verify returns true to a verify of an active task,
\* the subtask is saved as finished, and the task is saved as finished
\* exactly when the number of its finished subtasks is then at least
\* max_subtasks (otherwise its status stays as it is); when it is saved as
\* finished with no active task of the app left, shutdown() is invoked once
\* on the App Client of the app.
C14_VerifyTrue ==
    [][\A c \in InFlight :
          TaskIsActive(tasks[c.task].status) /\ VerifyCallDone(c, TRUE)
             => LET app == tasks[c.task].app_id
                    done == FinishedSubtasks(subtasks', c.task)
                                >= tasks[c.task].max_subtasks
                IN
                /\ subtasks'[c.sub].status = "finished"
                /\ IF done
                   THEN tasks' = [tasks EXCEPT ![c.task].status = "finished"]
                   ELSE tasks' = tasks
                /\ (/\ done
                    /\ UnfinishedTasks(tasks', app) = 0
                    /\ app_clients[app].present)
                      => app_clients'[app] = Shutdown(app_clients[app])]_vars

C16_AbortTask ==
    [][\A t \in 1..Len(tasks) :
          tasks[t].status \in TaskActiveStatuses /\ AbortTask(t)
             => LET app == tasks[t].app_id
                    act == {s \in RowsOf(t) : subtasks[s].status \in
                               {"starting", "downloading", "verifying"}}
                    last == \A u \in 1..Len(tasks) :
                               u # t /\ tasks[u].app_id = app
                                  => tasks[u].status \notin TaskActiveStatuses
                    n == app_clients[app].shutdowns
                IN
                /\ tasks' = [tasks EXCEPT ![t].status = "aborted"]
                /\ Len(subtasks') = Len(subtasks)
                /\ \A s \in Rows :
                      subtasks'[s] = IF s \in act
                                     THEN [subtasks[s] EXCEPT !.status = "cancelled"]
                                     ELSE subtasks[s]
                /\ timers' = timers \ act
                /\ IF last /\ app_clients[app].present
                   THEN /\ app_clients' = [app_clients EXCEPT ![app].shutdowns =
                               IF n < MaxShutdowns THEN n + 1 ELSE n]
                        /\ coros' = coros (+) One(Coro("abort_task", t, 0, 0,
                                                       "shutdown"))
                   ELSE /\ app_clients' = app_clients
                        /\ coros' = coros
                        /\ ret' = IF last
                                  THEN Ret("_shutdown_app_client", "KeyError")
                                  ELSE Ret("abort_task", "ok")]_vars

C16_Witness ==
    \E c \in InFlight :
       /\ c.op = "abort_task"
       /\ c.pc = "shutdown"
       /\ ret = NoRet
       /\ tasks[c.task].status = "aborted"
       /\ app_clients[tasks[c.task].app_id].shutdowns = 1
       /\ \E s1, s2 \in RowsOf(c.task) :
             /\ subtasks[s1].status = "cancelled"
             /\ subtasks[s2].status \in {"finished", "failure"}
             /\ timers = {}

\* the first of the admission rules 1 to 4 that a get_next_subtask call for
\* (t, n) violates in the current state, "none" when it violates none
FirstRuleViolated(t, n) ==
    IF ~TaskExists(t) THEN "DoesNotExist"
    ELSE IF n = PublicKey THEN "NoSubtasksForSelf"
    ELSE IF tasks[t].status \notin TaskActiveStatuses THEN "TaskNotActive"
    ELSE IF \E s \in RowsOf(t) :
               /\ subtasks[s].computing_node = n
               /\ subtasks[s].status # "finished"
         THEN "UnfinishedSubtasks"
    ELSE "none"

\* C17: get_next_subtask tests its admission rules in the order task exists,
\* node is not self, task is active, provider has no unfinished subtask of
\* the task, has_pending_subtasks answers true; the first rule violated makes
\* it raise with no next_subtask call, no row inserted and no timer started,
\* and the first four are decided before any App Client is acquired or called.
C17_AdmissionOrder ==
    [][\* a refusal by rules 1 to 4 names the first rule violated and leaves
       \* the tables, the map, the timers and the coroutines as they are
       /\ (ret'.op \in {"get", "get_next_subtask"}
              /\ ret'.res \in AssignmentRefused \ {"NotPending"})
             => /\ UNCHANGED <<tasks, subtasks, app_clients, coros, timers>>
                /\ \A t \in TaskIds, n \in NodeIds :
                      \/ ret'.res = FirstRuleViolated(t, n)
                      \/ ~GetNextSubtask(t, n)
       \* a call goes on to an App Client only when it violates none of them
       /\ \A c \in BagToSet(coros') :
             (/\ c.op = "get_next_subtask"
              /\ c.pc \in {"hps_create", "hps_call"}
              /\ CopiesIn(c, coros') > CopiesIn(c, coros)
              /\ [c EXCEPT !.pc = "hps_create"] \notin InFlight)
                => FirstRuleViolated(c.task, c.node) = "none"
       \* rule 5: a false answer ends the call with nothing changed
       /\ \A c \in InFlight :
             c.op = "get_next_subtask" /\ HpsCallDone(c, FALSE)
                => /\ ret' = Ret("get_next_subtask", "NotPending")
                   /\ coros' = Without(c)
                   /\ UNCHANGED <<tasks, subtasks, app_clients, timers>>
       \* next_subtask is reached only from a true answer
       /\ \A c \in BagToSet(coros') :
             c.pc \in {"next_create", "next_call"} /\ c \notin InFlight
                => \E b \in InFlight :
                      /\ b.op = "get_next_subtask"
                      /\ b.pc \in {"hps_call", "next_create"}
                      /\ b.task = c.task
                      /\ b.node = c.node]_vars

C17_Witness ==
    /\ ret = Ret("get_next_subtask", "NotPending")
    /\ \E t \in 1..Len(tasks) : TaskIsActive(tasks[t].status)
    /\ subtasks = <<>>
    /\ timers = {}

\* C18: verify and abort_task on a task that is not active (creating, or any
\* completed status) raise "task not active" and change no task row, no
\* subtask row, no entry of the App Client map and no timer, and start no
\* App Client call.
C18_TaskNotActive ==
    [][\A t \in 1..Len(tasks) :
          tasks[t].status \notin TaskActiveStatuses
             => /\ \/ /\ ret' = Ret("abort_task", "TaskNotActive")
                      /\ UNCHANGED <<tasks, subtasks, app_clients, coros, timers>>
                   \/ ~AbortTask(t)
                /\ \A s \in SubtaskIds :
                      \/ /\ ret' = Ret("verify", "TaskNotActive")
                         /\ UNCHANGED <<tasks, subtasks, app_clients, coros,
                                        timers>>
                      \/ ~Verify(t, s)]_vars

C18_Witness ==
    /\ ret = Ret("verify", "TaskNotActive")
    /\ Len(tasks) = 1
    /\ tasks[1].status \in TaskCompletedStatuses
    /\ subtasks # <<>>
    /\ app_clients[tasks[1].app_id].present

\* the suspension points inside a verb of an App Client
VerbPcs == {"init_call", "hps_call", "next_call", "verify_call", "shutdown"}

\* C19: once quit has completed, no step invokes a verb (create_task,
\* has_pending_subtasks, next_subtask, verify, shutdown) on an App Client
\* that quit shut down.
C19_NoVerbAfterQuit ==
    [][(quit_called /\ quit_pending = {})
          => \A c \in BagToSet(coros') :
                (c.pc \in VerbPcs /\ CopiesIn(c, coros') > CopiesIn(c, coros))
                   => ~app_clients'[tasks'[c.task].app_id].quit]_vars

C22_EnvironmentDisabled ==
    [][ret'.res = "EnvironmentDisabled"
          => /\ ret'.op \in {"init_task", "has_pending_subtasks",
                              "get_next_subtask", "verify"}
             /\ \E t \in 1..Len(tasks) : ~app_clients[tasks[t].app_id].present
             /\ UNCHANGED <<tasks, subtasks, app_clients, timers>>
             /\ \/ coros' = coros
                \/ \E c \in InFlight :
                      /\ c.op = "get_next_subtask"
                      /\ c.pc = "hps_call"
                      /\ ret'.op = c.op
                      /\ coros' = Without(c)]_vars

C22_Witness ==
    /\ ret = Ret("verify", "EnvironmentDisabled")
    /\ \E s \in Rows :
          /\ subtasks[s].status = "starting"
          /\ TaskIsActive(tasks[subtasks[s].task].status)
          /\ ~app_clients[tasks[subtasks[s].task].app_id].present

\* C23: create_task inserts one task row in status creating under the id it
\* returns, leaves every other row, the App Client map and every coroutine as
\* they are (no App Client is created or called); task_exists is false for
\* every id at the start and becomes true for an id exactly by the
\* create_task that returns it, so it is true exactly for the ids returned.
C23_CreateTaskAndTaskExists ==
    /\ \A t \in TaskIds : ~task_exists(t)
    /\ [][/\ \A t \in TaskIds :
                 task_exists(t)' <=>
                    \/ task_exists(t)
                    \/ ret'.op = "create_task" /\ ret'.val = t
          /\ ret'.op = "create_task"
                => LET id == ret'.val IN
                   /\ ret'.res = "ok"
                   /\ id = Len(tasks) + 1
                   /\ Len(tasks') = id
                   /\ tasks'[id].status = "creating"
                   /\ \A t \in 1..Len(tasks) : tasks'[t] = tasks[t]
                   /\ UNCHANGED <<subtasks, app_clients, coros, timers>>
          /\ \A a \in AppIds, m \in 1..MaxMaxSubtasks, d \in Timeouts :
                CreateTask(a, m, d)
                   => /\ ret'.op = "create_task"
                      /\ tasks'[ret'.val].app_id = a
                      /\ tasks'[ret'.val].max_subtasks = m]_vars

C23_Witness ==
    /\ ret = RetVal("create_task", "ok", 1)
    /\ task_exists(1)
    /\ ~task_exists(2)
    /\ tasks[1].status = "creating"
    /\ \A a \in AppIds : ~app_clients[a].present
    /\ coros = EmptyBag

\* the changes of a subtask's status that the transition diagram allows
AllowedSubtaskChange(from, to) ==
    \/ from = "starting" /\ to = "verifying"
    \/ from = "verifying" /\ to \in {"finished", "failure"}
    \/ from \in {"starting", "downloading", "verifying"} /\ to = "cancelled"

\* C24: every change of a subtask's status is starting -> verifying,
\* verifying -> finished, verifying -> failure or active -> cancelled, so a
\* subtask in finished, failure or cancelled never changes status again.
C24_SubtaskTransitions ==
    [][\A s \in Rows :
          subtasks'[s].status # subtasks[s].status
             => AllowedSubtaskChange(subtasks[s].status, subtasks'[s].status)]_vars

\* a sweep for app a invokes shutdown() in this step and suspends there
SweepStarts(a) ==
    \E c \in BagToSet(coros') :
       /\ c.pc = "shutdown"
       /\ tasks[c.task].app_id = a
       /\ CopiesIn(c, coros') > CopiesIn(c, coros)

\* C25: the sweep that runs when a task finishes or is aborted invokes
\* shutdown() on the App Client of the app exactly when no task of the app is
\* active then, and otherwise leaves the entry in place; the entry of an app
\* is removed only by a sweep and only while no task of the app is active.
C25_SweepIffNoActiveTask ==
    [][\A a \in AppIds :
          /\ SweepStarts(a)
                => UnfinishedTasks(tasks', a) = 0 /\ app_clients[a].present
          /\ \A t \in 1..Len(tasks) :
                (/\ tasks[t].app_id = a
                 /\ TaskIsActive(tasks[t].status)
                 /\ ~TaskIsActive(tasks'[t].status))
                   => IF UnfinishedTasks(tasks', a) = 0
                      THEN app_clients[a].present => SweepStarts(a)
                      ELSE app_clients' = app_clients /\ ~SweepStarts(a)
          /\ (app_clients[a].present /\ ~app_clients'[a].present)
                => /\ \E c \in InFlight : c.pc = "shutdown" /\ coros' = Without(c)
                   /\ UnfinishedTasks(tasks, a) = 0]_vars

\* the sweeps suspended in shutdown() for the app
Sweeping(a) ==
    LET S == {c \in InFlight : c.pc = "shutdown" /\ tasks[c.task].app_id = a}
    IN BagCardinality([c \in S |-> coros[c]])

\* C26: for one app, no sweep is suspended in shutdown() (between invoking it
\* and deleting the entry) while a RequestorAppClient.create of
\* _get_app_client is in progress, and the other way round.
C26_CreationExcludesDeletion ==
    \A a \in AppIds : ~(Creating(a) > 0 /\ Sweeping(a) > 0)

\* C27: a verify puts its subtask in verifying when it calls
\* app_client.verify; when that call raises, the error is propagated and the
\* step changes no subtask row (the subtask stays in verifying), no task row,
\* no timer and no entry of the map, and starts no sweep; while the call is
\* pending the subtask leaves verifying only by being cancelled or by another
\* verify of the same subtask returning.
C27_VerifyError ==
    [][/\ \A c \in InFlight :
             c.pc = "verify_call" /\ AppClientError(c)
                => /\ ret' = Ret("verify", "AppClientError")
                   /\ coros' = Without(c)
                   /\ UNCHANGED <<tasks, subtasks, app_clients, timers>>
       /\ \A c \in BagToSet(coros') :
             c.pc = "verify_call" /\ CopiesIn(c, coros') > CopiesIn(c, coros)
                => subtasks'[c.sub].status = "verifying"
       /\ \A c \in InFlight :
             (/\ c.pc = "verify_call"
              /\ CopiesIn(c, coros') >= CopiesIn(c, coros)
              /\ subtasks[c.sub].status = "verifying"
              /\ subtasks'[c.sub].status # "verifying")
                => \/ subtasks'[c.sub].status = "cancelled"
                   \/ \E d \in InFlight :
                         /\ d.pc = "verify_call"
                         /\ d.sub = c.sub
                         /\ CopiesIn(d, coros') < CopiesIn(d, coros)]_vars

C27_Witness ==
    /\ ret = Ret("verify", "AppClientError")
    /\ coros = EmptyBag
    /\ \E s \in Rows :
          /\ subtasks[s].status = "verifying"
          /\ s \in timers
          /\ TaskIsActive(tasks[subtasks[s].task].status)
          /\ app_clients[tasks[subtasks[s].task].app_id].present
          /\ app_clients[tasks[subtasks[s].task].app_id].shutdowns = 0

\* C28: a has_pending_subtasks, next_subtask or verify verb is forwarded only
\* to an App Client instance on which create_task was invoked for the task
\* before. Stated for the instances the manager constructs: an instance is
\* new when RequestorAppClient.create returns it, so no operation other than
\* init_task (whose verb is create_task itself) resumes from a creation and
\* forwards its verb to the instance it has just constructed.
C28_VerbsGoToInitialisedClient ==
    [][\A c \in InFlight :
          (/\ c.pc \in CreatePcs
           /\ CopiesIn(c, coros') < CopiesIn(c, coros)
           /\ CopiesIn([c EXCEPT !.pc = CallAfterCreate(c.pc)], coros')
                 > CopiesIn([c EXCEPT !.pc = CallAfterCreate(c.pc)], coros))
             => c.op = "init_task"]_vars

\* C29: the sweep never raises KeyError: whenever it finds no active task of
\* the app, the map holds an entry for the app when shutdown() is invoked
\* and when the entry is deleted, so abort_task and a verify that completes
\* the task return normally.
C29_SweepFindsEntry ==
    ret # Ret("_shutdown_app_client", "KeyError")

====
